---------------------------- MODULE Spec2Model ----------------------------
(* benthos_config_gen (cmd/tools/benthos_config_gen/main.go): the tool that  *)
(* writes one <type>.yaml and one <type>.json example configuration per      *)
(* input/output connector type.  The model follows main() statement by       *)
(* statement: the type set, the loop over it, Config.Sanitised, createYAML   *)
(* and createJSON, with the target directory and the console as state.      *)
EXTENDS Integers, Sequences, FiniteSets, TLC

\* ------------------------------------------------------------------ bounds

\* How many connector type names the two registries may hold between them.
NumNames == 2
\* How many entries the library's default input/output processor lists hold at most.
MaxDefaultProcs == 1
\* How many times the tool is invoked against the same target directory.
MaxRuns == 2

TypeNames == <<"kafka", "stdin", "stdout", "file", "amqp">>
Names == {TypeNames[i] : i \in 1..NumNames}

Sections == {"input", "buffer", "pipeline", "output"}
NoErr == "nil"
Nil == [nil |-> TRUE]
NoName == "-"

VARIABLES
    inputConstructors,   \* key set of input.Constructors
    outputConstructors,  \* key set of output.Constructors
    inputDefaultProcs,   \* Processors of input.NewConfig()
    outputDefaultProcs,  \* Processors of output.NewConfig()
    run,                 \* which invocation of the tool this is
    pc,                  \* position in main
    typeMap,             \* main's typeMap (its key set)
    remaining,           \* keys of typeMap the range loop has not visited yet
    t,                   \* the loop variable
    conf,                \* the loop body's conf
    sanit,               \* the loop body's sanit
    err,                 \* the loop body's err: NoErr, or the section whose sanitiser failed
    calls,               \* the section sanitisers the last Sanitised call invoked, in order
    fails,               \* the section sanitisers that fail when called, last Sanitised call
    files,               \* the target directory: path -> file
    stdout,              \* the progress lines printed by this invocation
    written,             \* the paths this invocation has written successfully
    snapshot,            \* the target directory as this invocation found it
    prevStdout           \* the progress lines of the previous invocation

vars == <<inputConstructors, outputConstructors, inputDefaultProcs,
          outputDefaultProcs, run, pc, typeMap, remaining, t, conf, sanit, err,
          calls, fails, files, stdout, written, snapshot, prevStdout>>

lib == <<inputConstructors, outputConstructors, inputDefaultProcs, outputDefaultProcs>>

\* ------------------------------------------------- the engine library (lib/)

\* processor.NewConfig(): the placeholder post-processing step.
processor_NewConfig == [type |-> "bounds_check", variants |-> {"bounds_check", "noop"}]

\* api.NewConfig()
api_NewConfig == [address |-> "0.0.0.0:4195"]

\* input.NewConfig(): the default type, every registered type's default fields,
\* and the library's default processor list.
input_NewConfig ==
    [type |-> "stdin", variants |-> inputConstructors \cup {"stdin"},
     processors |-> inputDefaultProcs]

\* buffer.NewConfig()
buffer_NewConfig == [type |-> "none", variants |-> {"none", "memory"}]

\* pipeline.NewConfig(): no processors by default.
pipeline_NewConfig == [threads |-> 1, processors |-> <<>>]

\* output.NewConfig()
output_NewConfig ==
    [type |-> "stdout", variants |-> outputConstructors \cup {"stdout"},
     processors |-> outputDefaultProcs]

\* processor.SanitiseConfig: only the fields of the selected processor type remain.
processor_SanitiseConfig(p) == [type |-> p.type, variants |-> p.variants \cap {p.type}]

SanitiseProcs(ps) == [i \in 1..Len(ps) |-> processor_SanitiseConfig(ps[i])]

\* input.SanitiseConfig / output.SanitiseConfig: the section reduced to the
\* fields of its selected type, its processors sanitised in turn.
input_SanitiseConfig(c) ==
    [type |-> c.type, variants |-> c.variants \cap {c.type},
     processors |-> SanitiseProcs(c.processors)]

output_SanitiseConfig(c) ==
    [type |-> c.type, variants |-> c.variants \cap {c.type},
     processors |-> SanitiseProcs(c.processors)]

buffer_SanitiseConfig(c) == [type |-> c.type, variants |-> c.variants \cap {c.type}]

pipeline_SanitiseConfig(c) ==
    [threads |-> c.threads, processors |-> SanitiseProcs(c.processors)]

\* ------------------------------------------------------------ Config (42-102)

\* NewConfig: every section from the library's default constructor.
NewConfig ==
    [HTTP |-> api_NewConfig, Input |-> input_NewConfig, Buffer |-> buffer_NewConfig,
     Pipeline |-> pipeline_NewConfig, Output |-> output_NewConfig]

\* Config.Sanitised with pipeline sanitised before buffer.
Sanitised_PipelineFirst(c, f) ==
    IF "input" \in f THEN [val |-> Nil, err |-> "input", calls |-> <<"input">>]
    ELSE IF "pipeline" \in f
    THEN [val |-> Nil, err |-> "pipeline", calls |-> <<"input", "pipeline">>]
    ELSE IF "buffer" \in f
    THEN [val |-> Nil, err |-> "buffer", calls |-> <<"input", "pipeline", "buffer">>]
    ELSE IF "output" \in f
    THEN [val |-> Nil, err |-> "output",
          calls |-> <<"input", "pipeline", "buffer", "output">>]
    ELSE [val |-> [HTTP |-> c.HTTP,
                   Input |-> input_SanitiseConfig(c.Input),
                   Buffer |-> buffer_SanitiseConfig(c.Buffer),
                   Pipeline |-> pipeline_SanitiseConfig(c.Pipeline),
                   Output |-> output_SanitiseConfig(c.Output)],
          err |-> NoErr, calls |-> <<"input", "pipeline", "buffer", "output">>]

\* Config.Sanitised: f is the set of sections whose sanitiser fails when it is
\* called; the result is the returned value, the returned error, and the
\* sanitisers that were called.
Sanitised(c, f) ==
    IF "input" \in f THEN [val |-> Nil, err |-> "input", calls |-> <<"input">>]
    ELSE IF "buffer" \in f
    THEN [val |-> Nil, err |-> "buffer", calls |-> <<"input", "buffer">>]
    ELSE IF "pipeline" \in f
    THEN [val |-> Nil, err |-> "pipeline", calls |-> <<"input", "buffer", "pipeline">>]
    ELSE IF "output" \in f
    THEN [val |-> Nil, err |-> "output",
          calls |-> <<"input", "buffer", "pipeline", "output">>]
    ELSE [val |-> [HTTP |-> c.HTTP,
                   Input |-> input_SanitiseConfig(c.Input),
                   Buffer |-> buffer_SanitiseConfig(c.Buffer),
                   Pipeline |-> pipeline_SanitiseConfig(c.Pipeline),
                   Output |-> output_SanitiseConfig(c.Output)],
          err |-> NoErr, calls |-> <<"input", "buffer", "pipeline", "output">>]

\* The fields of the struct Sanitised returns, in declaration order, and their tags.
Fields == <<"HTTP", "Input", "Buffer", "Pipeline", "Output">>

YAMLTag(f) ==
    CASE f = "HTTP" -> "http" [] f = "Input" -> "input" [] f = "Buffer" -> "buffer"
      [] f = "Pipeline" -> "pipeline" [] f = "Output" -> "output"

\* The json tags with the HTTP field's left to the encoder's default (the field name).
JSONTag_Untagged(f) ==
    CASE f = "HTTP" -> "HTTP" [] f = "Input" -> "input" [] f = "Buffer" -> "buffer"
      [] f = "Pipeline" -> "pipeline" [] f = "Output" -> "output"

JSONTag(f) ==
    CASE f = "HTTP" -> "http" [] f = "Input" -> "input" [] f = "Buffer" -> "buffer"
      [] f = "Pipeline" -> "pipeline" [] f = "Output" -> "output"

\* ------------------------------------------------------ the two encoders

\* yaml.Marshal: one block per struct field, keyed by its yaml tag; nil encodes as null.
yaml_Marshal(v) ==
    IF v = Nil THEN <<[enc |-> "yaml", key |-> "", val |-> Nil]>>
    ELSE [i \in 1..Len(Fields) |->
            [enc |-> "yaml", key |-> YAMLTag(Fields[i]), val |-> v[Fields[i]]]]

\* json.MarshalIndent(v, "", "\t"): one member per struct field, keyed by its json tag.
json_MarshalIndent(v) ==
    IF v = Nil THEN <<[enc |-> "json", key |-> "", val |-> Nil]>>
    ELSE [i \in 1..Len(Fields) |->
            [enc |-> "json", key |-> JSONTag(Fields[i]), val |-> v[Fields[i]]]]

Header == [enc |-> "yaml", key |-> "#", val |-> "This file was auto generated by benthos_config_gen."]

\* Parsing a file back into generic data: key -> value, comments dropped.
Unmarshal(bytes) ==
    LET idx == {i \in 1..Len(bytes) : bytes[i].key # "#"}
    IN  [k \in {bytes[i].key : i \in idx} |->
            bytes[CHOOSE i \in idx : bytes[i].key = k].val]

\* ------------------------------------------------------------ the filesystem

NoFile == [exists |-> FALSE, bytes |-> <<>>]

YamlPath(n) == <<n, "yaml">>
JsonPath(n) == <<n, "json">>
Paths == {YamlPath(n) : n \in Names} \cup {JsonPath(n) : n \in Names}

EmptyDir == [p \in Paths |-> NoFile]

\* ioutil.WriteFile opening the file for appending.
WriteFile_Append(f, path, data) ==
    [f EXCEPT ![path] = [exists |-> TRUE, bytes |-> f[path].bytes \o data]]

\* ioutil.WriteFile(path, data, 0644) succeeding: the file is created or truncated
\* and holds data.
WriteFile(f, path, data) == [f EXCEPT ![path] = [exists |-> TRUE, bytes |-> data]]

\* ioutil.WriteFile failing: the file could not be opened (the directory is
\* unchanged) or the write stopped short (the file holds a proper prefix of data).
WriteFileFailed(f, path, data) ==
    {f} \cup {[f EXCEPT ![path] = [exists |-> TRUE, bytes |-> SubSeq(data, 1, k)]] :
                 k \in 0..(Len(data) - 1)}

ProgressLine(n, path) == [generated |-> n, at |-> path]

\* panic(err) with a handler that removes what the run has emitted.
Panic_Cleanup(f) == [p \in DOMAIN f |-> NoFile]

\* panic(err): the process ends; the target directory stays as it is.
Panic(f) == f


\* -------------------------------------------------- createYAML / createJSON

YAMLBytes(s) == <<Header>> \o yaml_Marshal(s)
JSONBytes(s) == json_MarshalIndent(s)

\* createYAML (106-119).  The three outcomes: yaml.Marshal fails, WriteFile
\* fails, or the file is written and the progress line printed.
createYAML(n, path, s) ==
    \/ /\ files' = Panic(files)
       /\ pc' = "panicked"
       /\ UNCHANGED <<stdout, written>>
    \/ /\ \E g \in WriteFileFailed(files, path, YAMLBytes(s)) : files' = Panic(g)
       /\ pc' = "panicked"
       /\ UNCHANGED <<stdout, written>>
    \/ /\ files' = WriteFile(files, path, YAMLBytes(s))
       /\ stdout' = Append(stdout, ProgressLine(n, path))
       /\ written' = written \cup {path}
       /\ pc' = "createJSON"

\* createJSON with the progress line printed before the write is attempted.
createJSON_PrintFirst(n, path, s) ==
    \/ /\ files' = Panic(files)
       /\ pc' = "panicked"
       /\ UNCHANGED <<stdout, written>>
    \/ /\ \E g \in WriteFileFailed(files, path, JSONBytes(s)) : files' = Panic(g)
       /\ stdout' = Append(stdout, ProgressLine(n, path))
       /\ pc' = "panicked"
       /\ UNCHANGED written
    \/ /\ files' = WriteFile(files, path, JSONBytes(s))
       /\ stdout' = Append(stdout, ProgressLine(n, path))
       /\ written' = written \cup {path}
       /\ pc' = "loop"

\* createJSON (121-131).
createJSON(n, path, s) ==
    \/ /\ files' = Panic(files)
       /\ pc' = "panicked"
       /\ UNCHANGED <<stdout, written>>
    \/ /\ \E g \in WriteFileFailed(files, path, JSONBytes(s)) : files' = Panic(g)
       /\ pc' = "panicked"
       /\ UNCHANGED <<stdout, written>>
    \/ /\ files' = WriteFile(files, path, JSONBytes(s))
       /\ stdout' = Append(stdout, ProgressLine(n, path))
       /\ written' = written \cup {path}
       /\ pc' = "loop"

\* ------------------------------------------------------------ main (133-169)

\* The type set built from the input registry alone.
TypeMap_InputsOnly == inputConstructors

\* Lines 139-145: the union of the two registries' keys.
TypeMap == inputConstructors \cup outputConstructors

\* The loop body's configuration with conf declared outside the loop: the
\* previous iteration's value is what the overrides are applied to.
BuildConfig_Stale(n) ==
    LET c0 == IF conf = Nil THEN NewConfig ELSE conf
        c1 == [c0 EXCEPT !.Input.processors = <<>>,
                         !.Output.processors = <<>>,
                         !.Pipeline.processors = Append(@, processor_NewConfig)]
        c2 == IF n \in inputConstructors THEN [c1 EXCEPT !.Input.type = n] ELSE c1
    IN  IF n \in outputConstructors THEN [c2 EXCEPT !.Output.type = n] ELSE c2

\* The loop body's configuration with the second test reading the input registry.
BuildConfig_SameRegistry(n) ==
    LET c0 == NewConfig
        c1 == [c0 EXCEPT !.Input.processors = <<>>,
                         !.Output.processors = <<>>,
                         !.Pipeline.processors = Append(@, processor_NewConfig)]
        c2 == IF n \in inputConstructors THEN [c1 EXCEPT !.Input.type = n] ELSE c1
    IN  IF n \in inputConstructors THEN [c2 EXCEPT !.Output.type = n] ELSE c2

\* The loop body's configuration with the input section's processors left as
\* the library set them.
BuildConfig_KeepProcessors(n) ==
    LET c0 == NewConfig
        c1 == [c0 EXCEPT !.Output.processors = <<>>,
                         !.Pipeline.processors = Append(@, processor_NewConfig)]
        c2 == IF n \in inputConstructors THEN [c1 EXCEPT !.Input.type = n] ELSE c1
    IN  IF n \in outputConstructors THEN [c2 EXCEPT !.Output.type = n] ELSE c2

\* Lines 149-159: a fresh default configuration, the input and output
\* processors cleared, one placeholder processor appended to the pipeline, and
\* the section types set from the registries that know n.
BuildConfig(n) ==
    LET c0 == NewConfig
        c1 == [c0 EXCEPT !.Input.processors = <<>>,
                         !.Output.processors = <<>>,
                         !.Pipeline.processors = Append(@, processor_NewConfig)]
        c2 == IF n \in inputConstructors THEN [c1 EXCEPT !.Input.type = n] ELSE c1
    IN  IF n \in outputConstructors THEN [c2 EXCEPT !.Output.type = n] ELSE c2

\* Lines 161-166 with the error of Sanitised dropped.
AfterSanitised_Ignore(e) == "createYAML"

\* Lines 161-166: a failed Sanitised panics, otherwise createYAML is next.
AfterSanitised(e) == IF e # NoErr THEN "panicked" ELSE "createYAML"

ProcList == UNION {[1..k -> {processor_NewConfig}] : k \in 0..MaxDefaultProcs}

Init ==
    /\ inputConstructors \in SUBSET Names
    /\ outputConstructors \in SUBSET Names
    /\ inputDefaultProcs \in ProcList
    /\ outputDefaultProcs \in ProcList
    /\ run = 1
    /\ pc = "start"
    /\ typeMap = {}
    /\ remaining = {}
    /\ t = NoName
    /\ conf = Nil
    /\ sanit = Nil
    /\ err = NoErr
    /\ calls = <<>>
    /\ fails = {}
    /\ files = EmptyDir
    /\ stdout = <<>>
    /\ written = {}
    /\ snapshot = EmptyDir
    /\ prevStdout = <<>>

\* Lines 134-145.
BuildTypeMap ==
    /\ pc = "start"
    /\ typeMap' = TypeMap
    /\ remaining' = TypeMap
    /\ pc' = "loop"
    /\ UNCHANGED <<lib, run, t, conf, sanit, err, calls, fails, files, stdout,
                   written, snapshot, prevStdout>>

\* Lines 148-159: the range loop hands out any key not visited yet.
Iterate ==
    /\ pc = "loop"
    /\ \E n \in remaining :
          /\ t' = n
          /\ remaining' = remaining \ {n}
          /\ conf' = BuildConfig(n)
    /\ sanit' = Nil
    /\ err' = NoErr
    /\ calls' = <<>>
    /\ fails' = {}
    /\ pc' = "sanitise"
    /\ UNCHANGED <<lib, run, typeMap, files, stdout, written, snapshot, prevStdout>>

\* Lines 161-164.
CallSanitised ==
    /\ pc = "sanitise"
    /\ \E f \in SUBSET Sections :
          LET r == Sanitised(conf, f)
          IN  /\ sanit' = r.val
              /\ err' = r.err
              /\ calls' = r.calls
              /\ fails' = f
              /\ pc' = AfterSanitised(r.err)
    /\ files' = IF pc' = "panicked" THEN Panic(files) ELSE files
    /\ UNCHANGED <<lib, run, typeMap, remaining, t, conf, stdout, written,
                   snapshot, prevStdout>>

\* Line 166.
CallCreateYAML ==
    /\ pc = "createYAML"
    /\ createYAML(t, YamlPath(t), sanit)
    /\ UNCHANGED <<lib, run, typeMap, remaining, t, conf, sanit, err, calls,
                   fails, snapshot, prevStdout>>

\* Line 167.
CallCreateJSON ==
    /\ pc = "createJSON"
    /\ createJSON(t, JsonPath(t), sanit)
    /\ UNCHANGED <<lib, run, typeMap, remaining, t, conf, sanit, err, calls,
                   fails, snapshot, prevStdout>>

\* Line 168-169: the loop is exhausted and main returns.
Finish ==
    /\ pc = "loop"
    /\ remaining = {}
    /\ pc' = "done"
    /\ UNCHANGED <<lib, run, typeMap, remaining, t, conf, sanit, err, calls,
                   fails, files, stdout, written, snapshot, prevStdout>>

\* The tool is invoked again on the directory a completed run left behind.
Rerun ==
    /\ pc = "done"
    /\ run < MaxRuns
    /\ run' = run + 1
    /\ pc' = "start"
    /\ snapshot' = files
    /\ prevStdout' = stdout
    /\ stdout' = <<>>
    /\ written' = {}
    /\ typeMap' = {}
    /\ remaining' = {}
    /\ t' = NoName
    /\ conf' = Nil
    /\ sanit' = Nil
    /\ err' = NoErr
    /\ calls' = <<>>
    /\ fails' = {}
    /\ UNCHANGED <<lib, files>>

Next ==
    \/ BuildTypeMap
    \/ Iterate
    \/ CallSanitised
    \/ CallCreateYAML
    \/ CallCreateJSON
    \/ Finish
    \/ Rerun

Spec == Init /\ [][Next]_vars

\* ------------------------------------------------------------ properties

\* The names whose iteration of the loop has run to its end in this invocation.
Completed ==
    IF pc \in {"loop", "done"} THEN typeMap \ remaining
    ELSE typeMap \ (remaining \cup {t})

Registered == inputConstructors \cup outputConstructors

NamesOf(out) == {out[i].generated : i \in 1..Len(out)}

\* The configuration the tool is to emit for n, as generic data: a function of
\* n, the registries and the library's defaults alone.
ExpectedConfig(n) ==
    LET inType == IF n \in inputConstructors THEN n ELSE input_NewConfig.type
        outType == IF n \in outputConstructors THEN n ELSE output_NewConfig.type
    IN  [k \in {"http", "input", "buffer", "pipeline", "output"} |->
            CASE k = "http" -> api_NewConfig
              [] k = "input" -> [type |-> inType, variants |-> {inType}, processors |-> <<>>]
              [] k = "buffer" -> [type |-> "none", variants |-> {"none"}]
              [] k = "pipeline" ->
                    [threads |-> 1,
                     processors |-> <<[type |-> "bounds_check", variants |-> {"bounds_check"}]>>]
              [] k = "output" -> [type |-> outType, variants |-> {outType}, processors |-> <<>>]]

\* The sanitised struct as the generic data its encodings parse back to.
Generic(s) ==
    [k \in {YAMLTag(Fields[i]) : i \in 1..Len(Fields)} |->
        s[CHOOSE f \in {Fields[i] : i \in 1..Len(Fields)} : YAMLTag(f) = k]]

Emitted(p) == Unmarshal(files[p].bytes)

\* The statements of main still to run: every step of a run lowers it.
Rank ==
    CASE pc = "start" -> 5 * Cardinality(Names) + 2
      [] pc = "sanitise" -> 4
      [] pc = "createYAML" -> 3
      [] pc = "createJSON" -> 2
      [] pc = "loop" -> 1
      [] OTHER -> 0
StepsLeft == 5 * Cardinality(remaining) + Rank

NoFailureStep ==
    \/ BuildTypeMap
    \/ Iterate
    \/ Finish
    \/ CallSanitised /\ err' = NoErr
    \/ CallCreateYAML /\ pc' # "panicked"
    \/ CallCreateJSON /\ pc' # "panicked"

C1_FilesAtDone ==
    (run = 1 /\ pc = "done") =>
        \A n \in Names :
            IF n \in Registered
            THEN files[YamlPath(n)].exists /\ files[JsonPath(n)].exists
            ELSE ~files[YamlPath(n)].exists /\ ~files[JsonPath(n)].exists

\* C1: a run on an empty target directory in which no step fails terminates
\* (a step that does not fail is always possible until main returns, and every
\* step lowers the count of statements left), and at its end <name>.yaml and
\* <name>.json are there for every name of either registry, and no file for
\* any other name.
Thm_C1_BothFilesPerRegisteredName ==
    /\ [](C1_FilesAtDone)
    /\ [](pc \notin {"done", "panicked"} => ENABLED NoFailureStep)
    /\ [][run' = run => StepsLeft' < StepsLeft]_vars

Wit_C1_RunDoneBothRegistries ==
    /\ run = 1 /\ pc = "done"
    /\ inputConstructors \ outputConstructors # {}
    /\ outputConstructors \ inputConstructors # {}
    /\ \A n \in Registered : files[YamlPath(n)].exists /\ files[JsonPath(n)].exists

\* C2: the configuration emitted for an input-only name X has input type X and
\* the library's default output type, and for an output-only name the other
\* way round, whatever was processed before it.
Thm_C2_OnlyOwnSectionTyped ==
    /\ (conf # Nil /\ t \in inputConstructors \ outputConstructors) =>
          (conf.Input.type = t /\ conf.Output.type = output_NewConfig.type)
    /\ (conf # Nil /\ t \in outputConstructors \ inputConstructors) =>
          (conf.Output.type = t /\ conf.Input.type = input_NewConfig.type)
    /\ \A n \in Names : \A p \in {YamlPath(n), JsonPath(n)} \cap written :
        /\ (n \in inputConstructors \ outputConstructors) =>
              /\ Emitted(p)["input"].type = n
              /\ Emitted(p)["output"].type = output_NewConfig.type
        /\ (n \in outputConstructors \ inputConstructors) =>
              /\ Emitted(p)["output"].type = n
              /\ Emitted(p)["input"].type = input_NewConfig.type

Wit_C2_InputOnlyAfterOutputName ==
    /\ Len(stdout) = 4
    /\ stdout[1].generated \in outputConstructors \ inputConstructors
    /\ stdout[3].generated \in inputConstructors \ outputConstructors
    /\ stdout[3].generated # input_NewConfig.type
    /\ Emitted(JsonPath(stdout[3].generated))["input"].type = stdout[3].generated

\* C3: every emitted configuration has exactly one pipeline processor, the
\* placeholder, and no input or output processors.
Thm_C3_OnePipelineProcessor ==
    /\ (conf # Nil) =>
          /\ conf.Pipeline.processors = <<processor_NewConfig>>
          /\ conf.Input.processors = <<>>
          /\ conf.Output.processors = <<>>
    /\ \A p \in written :
        /\ Len(Emitted(p)["pipeline"].processors) = 1
        /\ Emitted(p)["pipeline"].processors[1] = processor_SanitiseConfig(processor_NewConfig)
        /\ Emitted(p)["input"].processors = <<>>
        /\ Emitted(p)["output"].processors = <<>>

Wit_C3_DefaultsHadProcessors ==
    /\ inputDefaultProcs # <<>>
    /\ outputDefaultProcs # <<>>
    /\ Cardinality(written) = 4
    /\ \A p \in written : Len(Emitted(p)["pipeline"].processors) = 1

\* What holds once Sanitised has returned an error for t.
C4_NothingWritten ==
    (err # NoErr) =>
        /\ pc = "panicked"
        /\ sanit = Nil
        /\ \A n \in remaining \cup {t} :
              /\ YamlPath(n) \notin written /\ JsonPath(n) \notin written
              /\ files[YamlPath(n)] = snapshot[YamlPath(n)]
              /\ files[JsonPath(n)] = snapshot[JsonPath(n)]
              /\ n \notin NamesOf(stdout)

\* C4: when sanitisation fails for name t, nothing is written for t in that
\* run, nothing is built, sanitised or written for the names not yet visited,
\* and the process takes no further step.
Thm_C4_SanitiseFailureWritesNothing ==
    [](C4_NothingWritten) /\ [][pc # "panicked"]_vars

Wit_C4_SanitiseFailedNamesLeft ==
    /\ pc = "panicked"
    /\ err = "pipeline"
    /\ calls = <<"input", "buffer", "pipeline">>
    /\ remaining # {}
    /\ ~files[YamlPath(t)].exists
    /\ stdout = <<>>

\* What the completed names have on disk when the run has aborted.
C5_EarlierFilesPresent ==
    (pc = "panicked") =>
        \A n \in Completed :
            /\ {YamlPath(n), JsonPath(n)} \subseteq written
            /\ Emitted(YamlPath(n)) = ExpectedConfig(n)
            /\ Emitted(JsonPath(n)) = ExpectedConfig(n)

\* C5: the step that aborts the run leaves every file emitted for the names
\* already completed exactly as it was, and those files are all there.
Thm_C5_AbortKeepsEarlierFiles ==
    /\ [](C5_EarlierFilesPresent)
    /\ [][pc' = "panicked" =>
            \A n \in Completed : /\ files'[YamlPath(n)] = files[YamlPath(n)]
                                 /\ files'[JsonPath(n)] = files[JsonPath(n)]]_vars

Wit_C5_WriteFailedAfterEarlierName ==
    /\ pc = "panicked"
    /\ err = NoErr
    /\ Completed # {}
    /\ files[YamlPath(t)].exists
    /\ YamlPath(t) \notin written
    /\ \A n \in Completed : files[JsonPath(n)].exists

\* C6: a second complete run over the output of a first complete run leaves
\* the directory exactly as it found it, having rewritten every file.
Thm_C6_RerunIdempotent ==
    (run > 1 /\ pc = "done") =>
        /\ files = snapshot
        /\ written = {p \in Paths : snapshot[p].exists}

Wit_C6_SecondRunDone ==
    /\ run = 2 /\ pc = "done"
    /\ Cardinality(written) = 4
    /\ files = snapshot

\* C7: the two files of a name parse back to the same generic data, which is
\* the one sanitised value of that iteration.
Thm_C7_YamlJsonSameConfig ==
    /\ \A n \in Names :
          ({YamlPath(n), JsonPath(n)} \subseteq written) =>
              /\ Emitted(YamlPath(n)) = Emitted(JsonPath(n))
              /\ files[YamlPath(n)].bytes[1] = Header
    /\ (pc = "createJSON") => Emitted(YamlPath(t)) = Generic(sanit)
    /\ (pc = "loop" /\ JsonPath(t) \in written) =>
          /\ Emitted(JsonPath(t)) = Generic(sanit)
          /\ Emitted(YamlPath(t)) = Generic(sanit)

Wit_C7_BothFilesOfAName ==
    /\ pc = "loop"
    /\ {YamlPath(t), JsonPath(t)} \subseteq written
    /\ Emitted(YamlPath(t)) = Emitted(JsonPath(t))
    /\ DOMAIN Emitted(JsonPath(t)) = {"http", "input", "buffer", "pipeline", "output"}

\* The order of the SanitiseConfig calls the claim names.
SanitiseOrder == <<"input", "buffer", "pipeline", "output">>

\* C8: Sanitised calls the section sanitisers in the order input, buffer,
\* pipeline, output, stops at the first that fails and returns its error with
\* no value; when none fails it returns a value whose http field is the
\* configuration's.
Thm_C8_SanitisedFirstFailureWins ==
    (calls # <<>>) =>
        /\ calls = SubSeq(SanitiseOrder, 1, Len(calls))
        /\ \A i \in 1..(Len(calls) - 1) : calls[i] \notin fails
        /\ IF fails = {}
           THEN /\ err = NoErr
                /\ Len(calls) = 4
                /\ sanit # Nil
                /\ sanit.HTTP = conf.HTTP
                /\ sanit.HTTP = api_NewConfig
           ELSE /\ err = calls[Len(calls)]
                /\ err \in fails
                /\ sanit = Nil

Wit_C8_BufferFailsPipelineNotCalled ==
    /\ fails = {"buffer", "pipeline", "output"}
    /\ calls = <<"input", "buffer">>
    /\ err = "buffer"
    /\ sanit = Nil

\* C9: what is written for a name depends on the name, the registries and the
\* defaults only, so runs that visit the names in different orders end with
\* the same files; they print the same lines, in their own order.
Thm_C9_ContentIndependentOfOrder ==
    /\ \A n \in Names : \A p \in {YamlPath(n), JsonPath(n)} \cap written :
          Emitted(p) = ExpectedConfig(n)
    /\ (pc = "done") =>
          /\ \A n \in typeMap :
                /\ files[YamlPath(n)].bytes = YAMLBytes(Sanitised(BuildConfig(n), {}).val)
                /\ files[JsonPath(n)].bytes = JSONBytes(Sanitised(BuildConfig(n), {}).val)
          /\ {stdout[i] : i \in 1..Len(stdout)} =
                {ProgressLine(n, YamlPath(n)) : n \in typeMap}
                   \cup {ProgressLine(n, JsonPath(n)) : n \in typeMap}
          /\ (run > 1) => files = snapshot

Wit_C9_TwoOrdersSameFiles ==
    /\ run = 2 /\ pc = "done"
    /\ Cardinality(typeMap) >= 2
    /\ stdout # prevStdout
    /\ files = snapshot

\* The length of a completely written file.
FullLen(p) == IF p[2] = "yaml" THEN Len(Fields) + 1 ELSE Len(Fields)

\* C10: in a run on an empty directory, <T>.json is never there without
\* <T>.yaml, only the name in hand has <T>.yaml without <T>.json, and there are
\* as many progress lines as files written.
Thm_C10_YamlBeforeJsonAndLineCount ==
    (run = 1) =>
        /\ \A n \in Names : files[JsonPath(n)].exists => files[YamlPath(n)].exists
        /\ \A n \in Names :
              (files[YamlPath(n)].exists /\ ~files[JsonPath(n)].exists) =>
                  (n = t /\ pc \in {"createJSON", "panicked"})
        /\ Len(stdout) = Cardinality(written)
        /\ Len(stdout) =
              Cardinality({p \in Paths : files[p].exists /\ Len(files[p].bytes) = FullLen(p)})

Wit_C10_SecondNameYamlOnly ==
    /\ run = 1
    /\ pc = "createJSON"
    /\ files[YamlPath(t)].exists
    /\ ~files[JsonPath(t)].exists
    /\ Len(stdout) = 3

============================================================================
